---- MODULE Spec2Model ----
(***************************************************************************)
(* Ledger and debt-settlement engine of py-telegram-splitwise-bot.         *)
(*                                                                         *)
(* Money.  The program computes with binary floating point and compares    *)
(* against the literal 0.01.  The model computes with exact arithmetic on  *)
(* integers: one model unit is 1/Cent of 0.01 currency units, where Cent   *)
(* is chosen so that every division the program performs on the modelled   *)
(* inputs (total / participant count, net / (count - 1)) is exact.  The    *)
(* rounding error of the floating-point operations themselves is not       *)
(* modelled; round(x, 2) is modelled as rounding to a whole number of      *)
(* cents.                                                                  *)
(***************************************************************************)
EXTENDS Integers, Sequences, FiniteSets, TLC

(***************************************************************************)
(* Bounds of the model.                                                    *)
(***************************************************************************)
\* Largest number of entries of a balance map handed to simplify.
MaxBalances == 3
\* Balances handed to simplify range over -MaxThirds..MaxThirds thirds of a cent.
MaxThirds == 8
\* Largest number of participants of one expense.
MaxParticipants == 2
\* Number of Telegram accounts.
NumTgUsers == 2
\* Number of Telegram chats.
NumChats == 1
\* Number of Telegram chats of the specification with several groups.
NumGroupChats == 2
\* Largest Split id stored when an expense of that specification is begun.
MaxSplitId == 4
\* Largest number of Expense rows stored together.
MaxExpenses == 2

(***************************************************************************)
(* Numbers.                                                                *)
(***************************************************************************)
RECURSIVE Factorial(_)
Factorial(n) == IF n <= 1 THEN 1 ELSE n * Factorial(n - 1)

\* Model units per 0.01 currency units: divisible by 3 and, for every
\* participant count n the model uses, by n and by n * (n - 1).
Cent == 3 * Factorial(MaxParticipants)

\* The tolerance literal 0.01 of the program.
Tol == Cent

Abs(x) == IF x < 0 THEN -x ELSE x

Min(a, b) == IF a <= b THEN a ELSE b

\* round(x, 2) for x >= 0: the nearest whole number of cents, ties to even.
Round2(x) ==
    LET q == x \div Cent
        r == x % Cent
    IN  IF 2 * r < Cent THEN q * Cent
        ELSE IF 2 * r > Cent THEN (q + 1) * Cent
        ELSE IF q % 2 = 0 THEN q * Cent ELSE (q + 1) * Cent

RECURSIVE SumSeq(_)
SumSeq(s) == IF s = <<>> THEN 0 ELSE Head(s) + SumSeq(Tail(s))

(***************************************************************************)
(* The debt simplifier: simplify_debts of tests/test_simplify_debts.py,    *)
(* the same code as the tail of BillSplitBot._simplify_debts and of the    *)
(* API's simplify_group_debts.  A balance map is a sequence of balances in *)
(* the map's iteration order; entry k belongs to key k.                    *)
(***************************************************************************)

\* InsertDesc placing x before the entries of equal amount.
InsertDescBeforeEqual(s, x) ==
    LET k == Cardinality({n \in 1..Len(s) : s[n].amount > x.amount})
    IN  SubSeq(s, 1, k) \o <<x>> \o SubSeq(s, k + 1, Len(s))

\* list.sort(key=amount, reverse=True): stable, largest amount first.
InsertDesc(s, x) ==
    LET k == Cardinality({n \in 1..Len(s) : s[n].amount >= x.amount})
    IN  SubSeq(s, 1, k) \o <<x>> \o SubSeq(s, k + 1, Len(s))

\* SortDesc leaving the list in the order of the partition loop.
SortDescKeepOrder(s) == s

RECURSIVE SortDesc(_)
SortDesc(s) ==
    IF s = <<>> THEN <<>>
    ELSE InsertDesc(SortDesc(SubSeq(s, 1, Len(s) - 1)), s[Len(s)])

\* The creditors list as appended by the partition loop, before sorting.
RECURSIVE CreditorsOf(_, _)
CreditorsOf(bal, k) ==
    IF k = 0 THEN <<>>
    ELSE IF bal[k] > Tol
         THEN Append(CreditorsOf(bal, k - 1), [user |-> k, amount |-> bal[k]])
         ELSE CreditorsOf(bal, k - 1)

\* The debtors list as appended by the partition loop, before sorting.
RECURSIVE DebtorsOf(_, _)
DebtorsOf(bal, k) ==
    IF k = 0 THEN <<>>
    ELSE IF (~(bal[k] > Tol)) /\ bal[k] < -Tol
         THEN Append(DebtorsOf(bal, k - 1), [user |-> k, amount |-> -bal[k]])
         ELSE DebtorsOf(bal, k - 1)

\* The local state of simplify when its while loop is first reached.
\* Cursors are 1-based here (the program's i, j are 0-based).
LoopInit(bal) ==
    [debtors      |-> SortDesc(DebtorsOf(bal, Len(bal))),
     creditors    |-> SortDesc(CreditorsOf(bal, Len(bal))),
     transactions |-> <<>>,
     i            |-> 1,
     j            |-> 1]

\* while i < len(debtors) and j < len(creditors)
LoopCond(st) == st.i <= Len(st.debtors) /\ st.j <= Len(st.creditors)

\* if amount > 0.01: the emission test of the loop body.
Meaningful(amount) == amount > Tol

\* Settled with the comparison against 0 in place of 0.01.
SettledBelowZero(amount) == amount < 0

\* if debtor["amount"] < 0.01 / if creditor["amount"] < 0.01: the cursor test.
Settled(amount) == amount < Tol

\* LoopStep without the statement creditor["amount"] -= amount.
LoopStepNoCreditorUpdate(st) ==
    LET debtor   == st.debtors[st.i]
        creditor == st.creditors[st.j]
        amount   == Min(debtor.amount, creditor.amount)
        dRest    == debtor.amount - amount
        cRest    == creditor.amount
    IN  [debtors      |-> [st.debtors EXCEPT ![st.i].amount = dRest],
         creditors    |-> st.creditors,
         transactions |-> IF Meaningful(amount)
                          THEN Append(st.transactions,
                                      [from   |-> debtor.user,
                                       to     |-> creditor.user,
                                       amount |-> Round2(amount)])
                          ELSE st.transactions,
         i            |-> IF Settled(dRest) THEN st.i + 1 ELSE st.i,
         j            |-> IF Settled(cRest) THEN st.j + 1 ELSE st.j]

\* LoopStep with payer and payee exchanged in the emitted transaction.
LoopStepPayeePays(st) ==
    LET debtor   == st.debtors[st.i]
        creditor == st.creditors[st.j]
        amount   == Min(debtor.amount, creditor.amount)
        dRest    == debtor.amount - amount
        cRest    == creditor.amount - amount
    IN  [debtors      |-> [st.debtors EXCEPT ![st.i].amount = dRest],
         creditors    |-> [st.creditors EXCEPT ![st.j].amount = cRest],
         transactions |-> IF Meaningful(amount)
                          THEN Append(st.transactions,
                                      [from   |-> creditor.user,
                                       to     |-> debtor.user,
                                       amount |-> Round2(amount)])
                          ELSE st.transactions,
         i            |-> IF Settled(dRest) THEN st.i + 1 ELSE st.i,
         j            |-> IF Settled(cRest) THEN st.j + 1 ELSE st.j]

\* One iteration of the while loop.
LoopStep(st) ==
    LET debtor   == st.debtors[st.i]
        creditor == st.creditors[st.j]
        amount   == Min(debtor.amount, creditor.amount)
        dRest    == debtor.amount - amount
        cRest    == creditor.amount - amount
    IN  [debtors      |-> [st.debtors EXCEPT ![st.i].amount = dRest],
         creditors    |-> [st.creditors EXCEPT ![st.j].amount = cRest],
         transactions |-> IF Meaningful(amount)
                          THEN Append(st.transactions,
                                      [from   |-> debtor.user,
                                       to     |-> creditor.user,
                                       amount |-> Round2(amount)])
                          ELSE st.transactions,
         i            |-> IF Settled(dRest) THEN st.i + 1 ELSE st.i,
         j            |-> IF Settled(cRest) THEN st.j + 1 ELSE st.j]

RECURSIVE RunLoop(_)
RunLoop(st) == IF LoopCond(st) THEN RunLoop(LoopStep(st)) ELSE st

\* simplify(balances): the ordered transaction sequence.
Simplify(bal) == RunLoop(LoopInit(bal)).transactions

\* The verification of print_test_result: the input balances after every
\* emitted transaction is applied (payer += amount, payee -= amount).
RECURSIVE ApplyTransactions(_, _)
ApplyTransactions(bal, txns) ==
    IF txns = <<>> THEN bal
    ELSE LET t == Head(txns)
             b == [bal EXCEPT ![t.from] = @ + t.amount]
         IN  ApplyTransactions([b EXCEPT ![t.to] = @ - t.amount], Tail(txns))

(***************************************************************************)
(* The stored ledger (database/models.py) and what the bot and the API do  *)
(* to it.  Primary keys are assigned as SQLite assigns an INTEGER PRIMARY  *)
(* KEY: one more than the largest key stored in the table.                 *)
(***************************************************************************)
\* Telegram accounts 1..NumTgUsers; account k has Telegram id TelegramId(k)
\* and username Username(k).
TgUsers == 1..NumTgUsers

TelegramId(k) == 100 + k

Username(k) == <<"alice", "bob", "carol", "dave", "erin">>[k]

\* Telegram chats 1..NumChats; chat c has chat id ChatId(c).
Chats == 1..NumChats

ChatId(c) == 1000 + c

\* Optional[float]: None is the empty sequence, a value v is <<v>>.
None == <<>>

Some(v) == <<v>>

MaxId(rows) == IF rows = {} THEN 0 ELSE CHOOSE m \in {r.id : r \in rows} :
                                           \A r \in rows : r.id <= m

NextId(rows) == MaxId(rows) + 1

\* db.query(TelegramUser).filter_by(telegram_id=...).first(): the key, or 0.
UserByTelegramId(us, tid) ==
    IF \E k \in 1..Len(us) : us[k].telegram_id = tid
    THEN CHOOSE k \in 1..Len(us) : us[k].telegram_id = tid
    ELSE 0

\* db.query(TelegramUser).filter_by(username=...).first(): the key, or 0.
UserByUsername(us, name) ==
    IF \E k \in 1..Len(us) : us[k].username = name
    THEN CHOOSE k \in 1..Len(us) : us[k].username = name
    ELSE 0

\* db.query(Group).filter_by(telegram_chat_id=...).first(): the key, or 0.
GroupByChatId(gs, cid) ==
    IF \E k \in 1..Len(gs) : gs[k].telegram_chat_id = cid
    THEN CHOOSE k \in 1..Len(gs) : gs[k].telegram_chat_id = cid
    ELSE 0

\* The Telegram account whose username is name (0 when there is none).
AccountNamed(name) ==
    IF \E k \in TgUsers : Username(k) = name
    THEN CHOOSE k \in TgUsers : Username(k) = name
    ELSE 0

\* "Get or create user", "get or create group", "add user to group if not
\* already a member" of handle_message and register_user, on the tables
\* db = [users, groups, members], for a sender that writes under the
\* username it was stored with (the update branch of handle_message then
\* changes nothing; RegisterSenderAs covers the other senders).
RegisterSender(db, sender, chat) ==
    LET us == IF UserByTelegramId(db.users, TelegramId(sender)) = 0
              THEN Append(db.users, [telegram_id |-> TelegramId(sender),
                                     username    |-> Username(sender)])
              ELSE db.users
        gs == IF GroupByChatId(db.groups, ChatId(chat)) = 0
              THEN Append(db.groups, [telegram_chat_id |-> ChatId(chat)])
              ELSE db.groups
        u  == UserByTelegramId(us, TelegramId(sender))
        g  == GroupByChatId(gs, ChatId(chat))
    IN  [users |-> us, groups |-> gs, members |-> db.members \cup {<<g, u>>}]

\* The usernames a Telegram account may carry when it writes: those of the
\* accounts and one more (an account can change its username at any time).
Handles == {Username(k) : k \in 1..(NumTgUsers + 1)}

\* Whether a row other than row u carries username name (u = 0: any row):
\* the commit then fails on the unique index of telegram_users.username.
UsernameTaken(us, u, name) == \E k \in 1..Len(us) : k # u /\ us[k].username = name

\* RegisterSenderAs inserting a row without looking for the sender first.
RegisterSenderAsAlwaysInsert(db, sender, chat, name, update) ==
    LET us == Append(db.users, [telegram_id |-> TelegramId(sender), username |-> name])
        gs == IF GroupByChatId(db.groups, ChatId(chat)) = 0
              THEN Append(db.groups, [telegram_chat_id |-> ChatId(chat)])
              ELSE db.groups
    IN  [users |-> us, groups |-> gs,
         members |-> db.members \cup {<<GroupByChatId(gs, ChatId(chat)), Len(us)>>}]

\* handle_message (update = TRUE, lines 475-516) and register_user (update =
\* FALSE, lines 419-450) for a sender whose username is name at that moment:
\* get or create the user, in handle_message update the stored username when
\* it differs, get or create the group, add the membership.  A commit that
\* fails on the unique index raises and the handler ends with the tables as
\* they were.
RegisterSenderAs(db, sender, chat, name, update) ==
    LET u  == UserByTelegramId(db.users, TelegramId(sender))
        us == IF u = 0
              THEN Append(db.users, [telegram_id |-> TelegramId(sender), username |-> name])
              ELSE IF update /\ db.users[u].username # name
              THEN [db.users EXCEPT ![u].username = name]
              ELSE db.users
        gs == IF GroupByChatId(db.groups, ChatId(chat)) = 0
              THEN Append(db.groups, [telegram_chat_id |-> ChatId(chat)])
              ELSE db.groups
    IN  IF us # db.users /\ UsernameTaken(db.users, u, name)
        THEN db
        ELSE [users |-> us, groups |-> gs,
              members |-> db.members \cup {<<GroupByChatId(gs, ChatId(chat)),
                                             UserByTelegramId(us, TelegramId(sender))>>}]

\* ExpenseData.validate_participants and validate_amount: the errors raised
\* while the parsed message is validated.
ParseErrors(data) ==
    (IF Len(data.participants) < 2 THEN {"InsufficientParticipants"} ELSE {})
    \cup (IF data.total_amount <= 0 THEN {"NonPositiveAmount"} ELSE {})

\* ResolveParticipant removing the membership also when the membership
\* query raises.
ResolveParticipantDropOnError(acc, g, sender, p, answer) ==
    IF p.username = "me"
    THEN [acc EXCEPT !.telegram_users =
              Append(@, UserByTelegramId(acc.users, TelegramId(sender)))]
    ELSE LET u == UserByUsername(acc.users, p.username)
         IN  IF u # 0
             THEN IF <<g, u>> \notin acc.members
                  THEN [acc EXCEPT !.not_found_users = Append(@, p.username)]
                  ELSE IF answer \in {"left", "error"}
                  THEN [acc EXCEPT !.members = @ \ {<<g, u>>},
                                   !.not_found_users = Append(@, p.username)]
                  ELSE [acc EXCEPT !.telegram_users = Append(@, u)]
             ELSE IF answer = "present" /\ AccountNamed(p.username) # 0
                  THEN LET us == Append(acc.users,
                                   [telegram_id |-> TelegramId(AccountNamed(p.username)),
                                    username    |-> p.username])
                       IN  [acc EXCEPT !.users = us,
                                       !.members = @ \cup {<<g, Len(us)>>},
                                       !.telegram_users = Append(@, Len(us))]
                  ELSE [acc EXCEPT !.not_found_users = Append(@, p.username)]

\* One iteration of the participant loop of _create_expense.  acc holds the
\* tables and the lists telegram_users and not_found_users; g is the group,
\* sender the account that sent the message, p the participant and answer
\* what Telegram answers when asked about the participant: "present" (a
\* member of the chat, or an administrator with that username), "left"
\* (status left, kicked or banned, or not among the administrators) or
\* "error" (the request raises).
ResolveParticipant(acc, g, sender, p, answer) ==
    IF p.username = "me"
    THEN \* the sender is in the table: handle_message stored it
         [acc EXCEPT !.telegram_users =
              Append(@, UserByTelegramId(acc.users, TelegramId(sender)))]
    ELSE LET u == UserByUsername(acc.users, p.username)
         IN  IF u # 0
             THEN IF <<g, u>> \notin acc.members
                  THEN [acc EXCEPT !.not_found_users = Append(@, p.username)]
                  ELSE IF answer = "left"
                  THEN [acc EXCEPT !.members = @ \ {<<g, u>>},
                                   !.not_found_users = Append(@, p.username)]
                  ELSE IF answer = "error"
                  THEN [acc EXCEPT !.not_found_users = Append(@, p.username)]
                  ELSE [acc EXCEPT !.telegram_users = Append(@, u)]
             ELSE IF answer = "present" /\ AccountNamed(p.username) # 0
                  THEN LET us == Append(acc.users,
                                   [telegram_id |-> TelegramId(AccountNamed(p.username)),
                                    username    |-> p.username])
                       IN  [acc EXCEPT !.users = us,
                                       !.members = @ \cup {<<g, Len(us)>>},
                                       !.telegram_users = Append(@, Len(us))]
                  ELSE [acc EXCEPT !.not_found_users = Append(@, p.username)]

\* The participant loop over the first k participants.
RECURSIVE ResolveParticipants(_, _, _, _, _, _)
ResolveParticipants(db, g, sender, ps, answers, k) ==
    IF k = 0
    THEN [users |-> db.users, groups |-> db.groups, members |-> db.members,
          telegram_users |-> <<>>, not_found_users |-> <<>>]
    ELSE ResolveParticipant(ResolveParticipants(db, g, sender, ps, answers, k - 1),
                            g, sender, ps[k], answers[k])

\* sum(p.paid for p in participants if p.paid is not None)
RECURSIVE TotalPaid(_)
TotalPaid(ps) ==
    IF ps = <<>> THEN 0
    ELSE (IF Head(ps).paid = None THEN 0 ELSE Head(ps).paid[1]) + TotalPaid(Tail(ps))

\* AmountMismatch with the comparison >= in place of >.
AmountMismatchAtTolerance(data) ==
    (~data.is_equal_split) /\ Abs(TotalPaid(data.participants) - data.total_amount) >= Tol

\* AmountMismatch with twice the tolerance.
AmountMismatchTwiceTolerance(data) ==
    (~data.is_equal_split) /\ Abs(TotalPaid(data.participants) - data.total_amount) > 2 * Tol

\* The amount check of an unequal split:
\* abs(total_paid - total_amount) > 0.01 raises.
AmountMismatch(data) ==
    (~data.is_equal_split) /\ Abs(TotalPaid(data.participants) - data.total_amount) > Tol

\* EqualShare dividing among the participants other than one payer.
EqualShareAmongOthers(data) == data.total_amount \div (Len(data.participants) - 1)

\* equal_share = total_amount / num_participants
EqualShare(data) == data.total_amount \div Len(data.participants)

\* paid_amount of the split of participant p.
PaidAmount(data, p) ==
    IF data.is_equal_split THEN EqualShare(data)
    ELSE IF p.paid = None THEN 0 ELSE p.paid[1]

\* The Split rows added by the split loop of _create_expense, the first of
\* them with key firstId.
NewSplits(data, telegram_users, expenseId, firstId) ==
    {[id           |-> firstId + k - 1,
      expense_id   |-> expenseId,
      user_id      |-> telegram_users[k],
      paid_amount  |-> PaidAmount(data, data.participants[k]),
      owed_amount  |-> EqualShare(data),
      is_settled   |-> FALSE] : k \in 1..Len(data.participants)}

\* The Split rows added by the split loop of the API's create_expense.
NewApiSplits(participants, expenseId, firstId) ==
    {[id           |-> firstId + k - 1,
      expense_id   |-> expenseId,
      user_id      |-> participants[k].user_id,
      paid_amount  |-> participants[k].paid,
      owed_amount  |-> participants[k].owed,
      is_settled   |-> FALSE] : k \in 1..Len(participants)}

\* The accumulation loop of _simplify_debts (lines 197-208) on the rows
\* ss of one group: the keys of user_balances ...
BalanceKeys(ss) == {s.user_id : s \in ss}

RECURSIVE NetOf(_)
NetOf(ss) ==
    IF ss = {} THEN 0
    ELSE LET s == CHOOSE x \in ss : TRUE
         IN  (s.paid_amount - s.owed_amount) + NetOf(ss \ {s})

\* ... and user_balances[u]: the sum of paid_amount - owed_amount over the
\* rows of user u.
UserBalance(ss, u) == NetOf({s \in ss : s.user_id = u})

(***************************************************************************)
(* State.                                                                  *)
(***************************************************************************)
\* First the variables of one call of simplify, run step by step.
VARIABLES balances,   \* the input balance map
    loop,          \* debtors, creditors, transactions, i, j
    spc,           \* "input" | "loop" | "done"
    iterations,    \* number of loop iterations executed by this call
    previous,      \* what the previous call on the same map returned, if any
    \* the tables
    users,         \* sequence of TelegramUser rows, the key is the position
    groups,        \* sequence of Group rows, the key is the position
    members,       \* group_members: set of <<group key, user key>>
    expenses,      \* set of Expense rows
    splits,        \* set of Split rows
    \* the bot's update handler (one update is handled at a time)
    botPc,         \* "idle" | "splits" (between the two commits) | "reply"
    botReq,        \* the last expense message and what was resolved for it
    botResult,     \* the outcome of the last expense message
    \* the API's request handler (one request is handled at a time)
    apiPc,         \* "idle" | "splits"
    apiReq,        \* the POST /expenses request in progress
    \* history: the members of the owning group when each expense was stored
    membersAtCreation

svars == <<balances, loop, spc, iterations, previous>>

tables == <<users, groups, members, expenses, splits>>

botvars == <<botPc, botReq, botResult>>

apivars == <<apiPc, apiReq>>

vars == <<balances, loop, spc, iterations, previous, users, groups, members, expenses,
          splits, botPc, botReq, botResult, apiPc, apiReq, membersAtCreation>>

NoRequest == [sender |-> 0, chat |-> 0,
              data |-> [total_amount |-> 0, participants |-> <<>>,
                        is_equal_split |-> TRUE],
              answers |-> <<>>, telegram_users |-> <<>>, expense_id |-> 0]

NoApiRequest == [participants |-> <<>>, expense_id |-> 0]

EmptyLoop == [debtors |-> <<>>, creditors |-> <<>>, transactions |-> <<>>,
              i |-> 1, j |-> 1]

\* The state after init_db() on a fresh database, no handler running.
LedgerInit ==
    /\ users = <<>>
    /\ groups = <<>>
    /\ members = {}
    /\ expenses = {}
    /\ splits = {}
    /\ botPc = "idle"
    /\ botReq = NoRequest
    /\ botResult = [status |-> "none", errors |-> {}]
    /\ apiPc = "idle"
    /\ apiReq = NoApiRequest
    /\ membersAtCreation = <<>>

SimplifyIdle ==
    /\ balances = <<>>
    /\ previous = None
    /\ loop = EmptyLoop
    /\ spc = "idle"
    /\ iterations = 0

(***************************************************************************)
(* One call of simplify on an arbitrary balance map.                       *)
(***************************************************************************)
BalanceVals == {k * (Cent \div 3) : k \in (-MaxThirds)..MaxThirds}

BalanceMaps == UNION {[1..n -> BalanceVals] : n \in 0..MaxBalances}

\* One currency unit.
Unit == 100 * Cent

\* Test Case 2 of tests/test_simplify_debts.py, "Three-Person Chain":
\* {alice: 150, bob: -50, charlie: -100}, keys in this order.
ThreePersonChain == <<150 * Unit, -50 * Unit, -100 * Unit>>

SimplifyInit ==
    /\ balances \in BalanceMaps \cup {ThreePersonChain}
    /\ previous = None
    /\ loop = EmptyLoop
    /\ spc = "input"
    /\ iterations = 0
    /\ LedgerInit

\* Lines 17-33 of simplify_debts: partition, sort, set the cursors.
SimplifyStart ==
    /\ spc = "input"
    /\ loop' = LoopInit(balances)
    /\ spc' = "loop"
    /\ UNCHANGED <<balances, iterations, previous, tables, botvars, apivars, membersAtCreation>>

\* SimplifyIterate with debtors and creditors aliasing the entries of the
\* input map: the remaining amounts are written back to balances.
SimplifyIterateInPlace ==
    /\ spc = "loop"
    /\ LoopCond(loop)
    /\ loop' = LoopStep(loop)
    /\ iterations' = iterations + 1
    /\ balances' = [balances EXCEPT
                       ![loop.debtors[loop.i].user] = -(loop'.debtors[loop.i].amount),
                       ![loop.creditors[loop.j].user] = loop'.creditors[loop.j].amount]
    /\ UNCHANGED <<spc, previous, tables, botvars, apivars, membersAtCreation>>

\* Lines 35-57: one iteration of the while loop.
SimplifyIterate ==
    /\ spc = "loop"
    /\ LoopCond(loop)
    /\ loop' = LoopStep(loop)
    /\ iterations' = iterations + 1
    /\ UNCHANGED <<balances, spc, previous, tables, botvars, apivars, membersAtCreation>>

\* Line 59: the loop condition is false, the transactions are returned.
SimplifyReturn ==
    /\ spc = "loop"
    /\ ~LoopCond(loop)
    /\ spc' = "done"
    /\ UNCHANGED <<balances, loop, iterations, previous, tables, botvars, apivars, membersAtCreation>>

\* print_test_result called again with the same dict object (line 86): the
\* caller keeps the first result and calls simplify_debts a second time.
SimplifyAgain ==
    /\ spc = "done"
    /\ previous = None
    /\ previous' = Some(loop.transactions)
    /\ loop' = EmptyLoop
    /\ spc' = "input"
    /\ iterations' = 0
    /\ UNCHANGED <<balances, tables, botvars, apivars, membersAtCreation>>

SimplifyNext == SimplifyStart \/ SimplifyIterate \/ SimplifyReturn \/ SimplifyAgain

SpecSimplify == SimplifyInit /\ [][SimplifyNext]_vars

\* The call runs to its return: the interpreter keeps executing the loop.
SpecSimplifyFair == SpecSimplify /\ WF_vars(SimplifyNext)

(***************************************************************************)
(* The bot: handle_message with _create_expense, and /register.            *)
(***************************************************************************)
\* What the language model may hand back for an expense message.
Names == {"me"} \cup {Username(k) : k \in TgUsers}

PaidVals == {None, Some(Cent), Some(2 * Cent)}

AmountVals == {0, 2 * Cent, 3 * Cent}

Participants == [username : Names, paid : PaidVals]

ParticipantLists == UNION {[1..n -> Participants] : n \in 1..MaxParticipants}

ExpenseInputs == [total_amount   : AmountVals,
                  participants   : ParticipantLists,
                  is_equal_split : BOOLEAN]

TelegramAnswers == {"present", "left", "error"}

Tables == [users |-> users, groups |-> groups, members |-> members]

\* handle_message for a text without an expense keyword: the sender is
\* registered and the message is ignored.
BotPlainMessage(sender, chat) ==
    /\ botPc = "idle"
    /\ LET db == RegisterSender(Tables, sender, chat)
       IN  /\ users' = db.users
           /\ groups' = db.groups
           /\ members' = db.members
    /\ UNCHANGED <<svars, expenses, splits, botvars, apivars, membersAtCreation>>

\* register_user: the /register command.
BotRegister(sender, chat) ==
    /\ botPc = "idle"
    /\ LET db == RegisterSender(Tables, sender, chat)
       IN  /\ users' = db.users
           /\ groups' = db.groups
           /\ members' = db.members
    /\ UNCHANGED <<svars, expenses, splits, botvars, apivars, membersAtCreation>>

\* handle_message for a text without an expense keyword (update = TRUE) or
\* /register (update = FALSE), sent by an account whose username is name.
BotMessageAs(sender, chat, name, update) ==
    /\ botPc = "idle"
    /\ LET db == RegisterSenderAs(Tables, sender, chat, name, update)
       IN  /\ users' = db.users
           /\ groups' = db.groups
           /\ members' = db.members
    /\ UNCHANGED <<svars, expenses, splits, botvars, apivars, membersAtCreation>>

\* handle_message for an expense message, up to the point where the request
\* is either refused or ready for the Expense row: registration of the
\* sender, the validators of ExpenseData, the participant loop and the
\* amount check of _create_expense.  The tables as they are left, the list
\* telegram_users and the errors raised (none: the request is accepted).
ValidateExpense(db0, sender, chat, data, answers) ==
    LET db == RegisterSender(db0, sender, chat)
    IN  IF ParseErrors(data) # {}
        THEN [users |-> db.users, groups |-> db.groups, members |-> db.members,
              telegram_users |-> <<>>, errors |-> ParseErrors(data)]
        ELSE LET acc == ResolveParticipants(db, GroupByChatId(db.groups, ChatId(chat)),
                                            sender, data.participants, answers,
                                            Len(data.participants))
             IN  [users |-> acc.users, groups |-> acc.groups, members |-> acc.members,
                  telegram_users |-> acc.telegram_users,
                  errors |-> IF acc.not_found_users # <<>>
                             THEN {"ParticipantNotMember"}
                             ELSE IF AmountMismatch(data) THEN {"AmountMismatch"}
                             ELSE {}]

\* handle_message for an expense message parsed to data, up to the commit of
\* the Expense row (line 663 of bot.py) or to the error raised before it.
BotExpenseMessage(sender, chat, data, answers) ==
    /\ botPc = "idle"
    /\ \E v \in {ValidateExpense(Tables, sender, chat, data, answers)} :
        /\ users' = v.users
        /\ groups' = v.groups
        /\ members' = v.members
        /\ IF v.errors # {}
           THEN /\ botReq' = [sender |-> sender, chat |-> chat, data |-> data,
                              answers |-> answers,
                              telegram_users |-> v.telegram_users, expense_id |-> 0]
                /\ botResult' = [status |-> "error", errors |-> v.errors]
                /\ botPc' = "reply"
                /\ UNCHANGED <<expenses, membersAtCreation>>
           ELSE \E id \in {NextId(expenses)}, g \in {GroupByChatId(v.groups, ChatId(chat))} :
                /\ expenses' = expenses \cup
                       {[id         |-> id,
                         group_id   |-> g,
                         amount     |-> data.total_amount,
                         created_by |-> TelegramId(sender)]}
                /\ membersAtCreation' =
                       [e \in DOMAIN membersAtCreation \cup {id} |->
                           IF e = id
                           THEN {m[2] : m \in {x \in v.members : x[1] = g}}
                           ELSE membersAtCreation[e]]
                /\ botReq' = [sender |-> sender, chat |-> chat, data |-> data,
                              answers |-> answers,
                              telegram_users |-> v.telegram_users, expense_id |-> id]
                /\ botResult' = [status |-> "pending", errors |-> {}]
                /\ botPc' = "splits"
    /\ UNCHANGED <<svars, splits, apivars>>

\* The split loop of _create_expense and its commit (lines 665-685).  When
\* the API deleted the Expense row in the meantime, reading expense.id
\* either raises (the row is gone when the expired object is reloaded) or
\* the Split rows are inserted with the key read before the deletion.
BotCommitSplits(raises) ==
    /\ botPc = "splits"
    /\ botPc' = "reply"
    /\ IF raises /\ ~(\E e \in expenses : e.id = botReq.expense_id)
       THEN /\ botResult' = [status |-> "error", errors |-> {"Error"}]
            /\ UNCHANGED splits
       ELSE /\ splits' = splits \cup NewSplits(botReq.data, botReq.telegram_users,
                                               botReq.expense_id, NextId(splits))
            /\ botResult' = [status |-> "ok", errors |-> {}]
    /\ UNCHANGED <<svars, users, groups, members, expenses, botReq, apivars,
                   membersAtCreation>>

\* The reply that ends the handling of an expense message: the confirmation
\* (line 715) or the error text (lines 534, 537).  The handler returns.
BotReply ==
    /\ botPc = "reply"
    /\ botPc' = "idle"
    /\ botReq' = NoRequest
    /\ botResult' = [status |-> "none", errors |-> {}]
    /\ UNCHANGED <<svars, tables, apivars, membersAtCreation>>

(***************************************************************************)
(* The API (fastapi_backend.py), served by a thread of its own.            *)
(***************************************************************************)
\* What a client may send to POST /expenses.
ApiTotals == {2 * Cent}

ApiParticipants == [user_id : TgUsers, paid : {Cent}, owed : {Cent, 2 * Cent}]

ApiParticipantLists == UNION {[1..n -> ApiParticipants] : n \in 0..MaxParticipants}

\* POST /expenses up to the commit of the Expense row (line 148).
ApiCreateExpense(groupId, amount, creator, participants) ==
    /\ apiPc = "idle"
    /\ groupId \in 1..Len(groups)
    /\ LET id == NextId(expenses)
       IN  /\ expenses' = expenses \cup
                  {[id |-> id, group_id |-> groupId, amount |-> amount,
                    created_by |-> creator]}
           /\ membersAtCreation' =
                  [e \in DOMAIN membersAtCreation \cup {id} |->
                      IF e = id
                      THEN {m[2] : m \in {x \in members : x[1] = groupId}}
                      ELSE membersAtCreation[e]]
           /\ apiReq' = [participants |-> participants, expense_id |-> id]
    /\ apiPc' = "splits"
    /\ UNCHANGED <<svars, users, groups, members, splits, botvars>>

\* POST /expenses: the split loop and its commit (lines 151-162).
ApiCommitSplits ==
    /\ apiPc = "splits"
    /\ splits' = splits \cup NewApiSplits(apiReq.participants, apiReq.expense_id,
                                          NextId(splits))
    /\ apiPc' = "idle"
    /\ apiReq' = NoApiRequest
    /\ UNCHANGED <<svars, users, groups, members, expenses, botvars, membersAtCreation>>

\* DELETE /expenses/{expense_id}: the row and, by the cascade of
\* Expense.splits, its Split rows.
ApiDeleteExpense(expenseId) ==
    /\ apiPc = "idle"
    /\ \E e \in expenses : e.id = expenseId
    /\ expenses' = {e \in expenses : e.id # expenseId}
    /\ splits' = {s \in splits : s.expense_id # expenseId}
    /\ membersAtCreation' = [e \in DOMAIN membersAtCreation \ {expenseId} |->
                                membersAtCreation[e]]
    /\ UNCHANGED <<svars, users, groups, members, botvars, apivars>>

\* ApiSettleSplit that also writes the paid amount over the owed amount.
ApiSettleSplitPaysOff(splitId) ==
    /\ apiPc = "idle"
    /\ \E s \in splits : s.id = splitId
    /\ splits' = {IF s.id = splitId
                  THEN [s EXCEPT !.is_settled = TRUE, !.paid_amount = s.owed_amount]
                  ELSE s : s \in splits}
    /\ UNCHANGED <<svars, users, groups, members, expenses, botvars, apivars,
                   membersAtCreation>>

\* PUT /splits/{split_id}/settle.
ApiSettleSplit(splitId) ==
    /\ apiPc = "idle"
    /\ \E s \in splits : s.id = splitId
    /\ splits' = {IF s.id = splitId THEN [s EXCEPT !.is_settled = TRUE] ELSE s :
                  s \in splits}
    /\ UNCHANGED <<svars, users, groups, members, expenses, botvars, apivars,
                   membersAtCreation>>

(***************************************************************************)
(* The specifications.                                                     *)
(***************************************************************************)
Init == SimplifyIdle /\ LedgerInit

\* What Telegram answers for each participant; it is asked about none that
\* is named "me".
AnswersFor(data) ==
    {a \in [1..Len(data.participants) -> TelegramAnswers] :
        \A k \in 1..Len(data.participants) :
            data.participants[k].username = "me" => a[k] = "present"}

BotNext(inputs, cap) ==
    \/ \E sender \in TgUsers, chat \in Chats : BotPlainMessage(sender, chat)
    \/ \E sender \in TgUsers, chat \in Chats : BotRegister(sender, chat)
    \/ /\ botPc = "idle"
       /\ Cardinality(expenses) < cap
       /\ \E sender \in TgUsers, chat \in Chats, data \in inputs :
             \E answers \in AnswersFor(data) :
                BotExpenseMessage(sender, chat, data, answers)
    \/ \E raises \in BOOLEAN : BotCommitSplits(raises)
    \/ BotReply

ApiNext(cap) ==
    \/ /\ apiPc = "idle"
       /\ Cardinality(expenses) < cap
       /\ \E groupId \in 1..NumChats, amount \in ApiTotals,
             participants \in ApiParticipantLists :
                ApiCreateExpense(groupId, amount, TelegramId(1), participants)
    \/ ApiCommitSplits
    \/ \E expenseId \in 1..MaxExpenses : ApiDeleteExpense(expenseId)
    \/ \E splitId \in 1..(MaxExpenses * MaxParticipants) : ApiSettleSplit(splitId)

\* The expense messages of the specifications that store several expenses:
\* two participants, a total of 0.02, each with a paid amount of 0.01 or 0.02.
TwoPartyInputs ==
    {d \in ExpenseInputs :
        /\ Len(d.participants) = 2
        /\ d.total_amount = 2 * Cent
        /\ \A k \in 1..2 : d.participants[k].paid \in {Some(Cent), Some(2 * Cent)}}

\* The expense messages of the specification with the API: the sender, who
\* paid 0.01, and one more participant.
MeFirstInputs ==
    {d \in TwoPartyInputs : d.participants[1] = [username |-> "me", paid |-> Some(Cent)]}

\* The bot alone, one stored expense at a time, every expense message.
RecordNext == BotNext(ExpenseInputs, 1)

SpecRecord == Init /\ [][RecordNext]_vars

\* The bot alone, several stored expenses.
LedgerNext == BotNext(TwoPartyInputs, MaxExpenses)

SpecBot == Init /\ [][LedgerNext]_vars

\* The bot and the API side by side on one database.
Next == BotNext(MeFirstInputs, 1) \/ ApiNext(1)

Spec == Init /\ [][Next]_vars

\* The expense message of the specification with several groups: the
\* sender paid the whole 0.04, the other participant, the last account,
\* nothing.
GroupInputs ==
    {[total_amount   |-> 4 * Cent,
      participants   |-> <<[username |-> "me", paid |-> Some(4 * Cent)],
                           [username |-> Username(NumTgUsers), paid |-> Some(0)]>>,
      is_equal_split |-> FALSE]}

\* The POST /expenses body of that specification: user 2 paid the whole
\* 0.04, user 1 nothing.
GroupApiParticipantLists ==
    {<<[user_id |-> 1, paid |-> 0, owed |-> 2 * Cent],
       [user_id |-> 2, paid |-> 4 * Cent, owed |-> 2 * Cent]>>}

\* The bot in several group chats and the API on one database: the first
\* account writes to the chats, expenses are recorded by the bot and the
\* API and deleted through the API.  Expense ids stay within MaxExpenses,
\* and no expense is begun once a Split id exceeds MaxSplitId.
GroupsNext ==
    \/ \E chat \in 1..NumGroupChats : BotPlainMessage(1, chat)
    \/ /\ botPc = "idle"
       /\ NextId(expenses) <= MaxExpenses
       /\ MaxId(splits) <= MaxSplitId
       /\ \E chat \in 1..NumGroupChats, data \in GroupInputs :
             BotExpenseMessage(1, chat, data, <<"present", "present">>)
    \/ \E raises \in BOOLEAN : BotCommitSplits(raises)
    \/ BotReply
    \/ /\ apiPc = "idle"
       /\ NextId(expenses) <= MaxExpenses
       /\ MaxId(splits) <= MaxSplitId
       /\ \E groupId \in 1..NumGroupChats, participants \in GroupApiParticipantLists :
             ApiCreateExpense(groupId, 4 * Cent, TelegramId(1), participants)
    \/ ApiCommitSplits
    \/ \E expenseId \in 1..MaxExpenses : ApiDeleteExpense(expenseId)

SpecGroups == Init /\ [][GroupsNext]_vars

\* Expenses recorded by the bot and by the API in several group chats,
\* and Splits settled through the API.
SettleNext ==
    \/ /\ botPc = "idle"
       /\ NextId(expenses) <= MaxExpenses
       /\ \E chat \in 1..NumGroupChats, data \in GroupInputs :
             BotExpenseMessage(1, chat, data, <<"present", "present">>)
    \/ \E raises \in BOOLEAN : BotCommitSplits(raises)
    \/ BotReply
    \/ /\ apiPc = "idle"
       /\ NextId(expenses) <= MaxExpenses
       /\ \E groupId \in 1..NumGroupChats, participants \in GroupApiParticipantLists :
             ApiCreateExpense(groupId, 4 * Cent, TelegramId(1), participants)
    \/ ApiCommitSplits
    \/ \E splitId \in 1..(MaxExpenses * MaxParticipants) : ApiSettleSplit(splitId)

SpecSettle == Init /\ [][SettleNext]_vars

\* The equal-split expense messages: a total of 0.02 or 0.04 shared by the
\* sender and the last account, no paid amounts.
EqualSplitInputs ==
    {[total_amount   |-> t,
      participants   |-> <<[username |-> "me", paid |-> None],
                           [username |-> Username(NumTgUsers), paid |-> None]>>,
      is_equal_split |-> TRUE] : t \in {2 * Cent, 4 * Cent}}

\* The bot alone in several chats, recording unequal and equal-split
\* expenses.
EqualNext ==
    \/ \E sender \in TgUsers, chat \in 1..NumGroupChats : BotPlainMessage(sender, chat)
    \/ /\ botPc = "idle"
       /\ Cardinality(expenses) < MaxExpenses
       /\ \E sender \in TgUsers, chat \in 1..NumGroupChats,
             data \in GroupInputs \cup EqualSplitInputs :
                BotExpenseMessage(sender, chat, data, <<"present", "present">>)
    \/ \E raises \in BOOLEAN : BotCommitSplits(raises)
    \/ BotReply

SpecEqual == Init /\ [][EqualNext]_vars

\* The bot receiving plain messages and /register commands in several
\* chats from accounts that change their usernames.
UsersNext ==
    \/ \E sender \in TgUsers, chat \in 1..NumGroupChats, name \in Handles :
          BotMessageAs(sender, chat, name, TRUE)
    \/ \E sender \in TgUsers, chat \in 1..NumGroupChats, name \in Handles :
          BotMessageAs(sender, chat, name, FALSE)

SpecUsers == Init /\ [][UsersNext]_vars

(***************************************************************************)
(* Properties of simplify, stated for SpecSimplify.                         *)
(***************************************************************************)
\* The balances of the finished call after its transactions are applied.
FinalBalances == ApplyTransactions(balances, loop.transactions)

\* Number of entries of the input map whose balance is not zero.
NonZeroCount == Cardinality({k \in DOMAIN balances : balances[k] # 0})

\* C1: for every balance map that sums to zero, applying every emitted
\* transaction (payer += amount, payee -= amount) to the input balances
\* leaves every balance within 0.01 of zero.
C1_SettlesZeroSumBalances ==
    (spc = "done" /\ SumSeq(balances) = 0)
        => \A k \in DOMAIN balances : Abs(FinalBalances[k]) <= Tol

\* C3 as stated: for every input balance map, the number of emitted
\* transactions never exceeds (number of non-zero balances) - 1.
C3_TransactionBoundAsStated ==
    spc = "done" => Len(loop.transactions) <= NonZeroCount - 1

\* C3 amended: a map with no non-zero balance yields no transaction, and for
\* every other map the number of emitted transactions never exceeds
\* (number of non-zero balances) - 1.
C3_TransactionBound ==
    spc = "done" =>
        IF NonZeroCount = 0
        THEN Len(loop.transactions) = 0
        ELSE Len(loop.transactions) <= NonZeroCount - 1

\* C3 witness: a finished call that emitted two transactions and meets the
\* bound with equality.
C3_Witness ==
    /\ spc = "done"
    /\ Len(loop.transactions) = 2
    /\ NonZeroCount = 3

\* Transactions of the finished or running call.
Txns == loop.transactions

C15_ChainAsStated ==
    (spc = "done" /\ balances = ThreePersonChain) =>
        Txns = <<[from |-> 2, to |-> 1, amount |-> 50 * Unit],
                 [from |-> 3, to |-> 1, amount |-> 100 * Unit]>>

\* C15 amended: simplify applied to {alice: 150, bob: -50, charlie: -100}
\* returns exactly: first charlie pays alice 100, then bob pays alice 50.
C15_Chain ==
    (spc = "done" /\ balances = ThreePersonChain) =>
        Txns = <<[from |-> 3, to |-> 1, amount |-> 100 * Unit],
                 [from |-> 2, to |-> 1, amount |-> 50 * Unit]>>

\* C15 witness: the call on the three-person chain has returned.
C15_Witness == spc = "done" /\ balances = ThreePersonChain /\ Len(Txns) = 2

\* The part of C17 that does not concern the amount: the payer's input
\* balance is below -0.01, the payee's is above 0.01 (so a user within 0.01
\* of zero is in no transaction), and nobody is payer in one transaction and
\* payee in another.
PartiesArePartitioned ==
    /\ \A n \in DOMAIN Txns :
          /\ balances[Txns[n].from] < -Tol
          /\ balances[Txns[n].to] > Tol
    /\ \A m, n \in DOMAIN Txns : Txns[m].from # Txns[n].to

\* C17 as stated: every emitted transaction has amount greater than 0.01,
\* payer below -0.01, payee above 0.01; users within 0.01 of zero appear in
\* no transaction; no user is payer in one transaction and payee in another.
C17_TransactionsAsStated ==
    spc = "done" =>
        /\ \A n \in DOMAIN Txns : Txns[n].amount > Tol
        /\ PartiesArePartitioned

\* C17 amended: every emitted transaction has amount at least 0.01 (the
\* settled amount exceeds 0.01 and is then rounded to two decimals), payer
\* below -0.01, payee above 0.01; users within 0.01 of zero appear in no
\* transaction; no user is payer in one transaction and payee in another.
C17_Transactions ==
    spc = "done" =>
        /\ \A n \in DOMAIN Txns : Txns[n].amount >= Tol
        /\ PartiesArePartitioned

\* C17 witness: a transaction of exactly 0.01 was emitted.
C17_Witness ==
    /\ spc = "done"
    /\ \E n \in DOMAIN Txns : Txns[n].amount = Tol

\* User a comes before user b in a list sorted by the input magnitudes,
\* largest first, ties in the iteration order of the map.
Before(a, b) ==
    \/ Abs(balances[a]) > Abs(balances[b])
    \/ Abs(balances[a]) = Abs(balances[b]) /\ a <= b

\* C18: debtors and creditors are consumed in nonincreasing order of their
\* input amounts, ties in the map's iteration order: the lists the loop
\* walks are so ordered, the payers and the payees of the emitted sequence
\* appear in that order, and the first transaction pairs the largest debtor
\* with the largest creditor.
C18_LargestFirst ==
    (spc \in {"loop", "done"}) =>
        /\ \A m, n \in DOMAIN loop.debtors :
              m < n => Before(loop.debtors[m].user, loop.debtors[n].user)
        /\ \A m, n \in DOMAIN loop.creditors :
              m < n => Before(loop.creditors[m].user, loop.creditors[n].user)
        /\ \A m, n \in DOMAIN Txns :
              m < n => /\ Before(Txns[m].from, Txns[n].from)
                       /\ Before(Txns[m].to, Txns[n].to)
        /\ Txns # <<>> =>
              /\ \A k \in DOMAIN balances :
                    balances[k] < -Tol => Before(Txns[1].from, k)
              /\ \A k \in DOMAIN balances :
                    balances[k] > Tol => Before(Txns[1].to, k)

\* C18 witness: two debtors of equal debt have paid, in the map's order.
C18_Witness ==
    /\ spc = "done"
    /\ Len(Txns) = 2
    /\ Txns[1].from < Txns[2].from
    /\ balances[Txns[1].from] = balances[Txns[2].from]

\* The larger of 0 and x.
AtLeastZero(x) == IF x < 0 THEN 0 ELSE x

\* C19 as stated: the loop runs at most (number of debtors + number of
\* creditors - 1) iterations.
C19_IterationBoundAsStated ==
    (spc \in {"loop", "done"}) =>
        iterations <= Len(loop.debtors) + Len(loop.creditors) - 1

\* C19 amended: the loop always terminates: every iteration advances the
\* debtor cursor, the creditor cursor, or both; the loop runs no iteration
\* when there is no debtor or no creditor and otherwise at most (number of
\* debtors + number of creditors - 1) iterations; it stops as soon as
\* either list is exhausted.
C19_Terminates ==
    /\ [][iterations' = iterations + 1 =>
            /\ LoopCond(loop)
            /\ loop'.i > loop.i \/ loop'.j > loop.j]_vars
    /\ []((spc \in {"loop", "done"}) =>
            iterations <= AtLeastZero(Len(loop.debtors) + Len(loop.creditors) - 1))
    /\ [](spc = "done" => ~LoopCond(loop))
    /\ <>(spc = "done")

\* C19 witness: a call with three debtors and creditors has returned after
\* two iterations.
C19_Witness ==
    /\ spc = "done"
    /\ iterations = 2
    /\ Len(loop.debtors) + Len(loop.creditors) = 3

(***************************************************************************)
(* Properties of the ledger.                                               *)
(***************************************************************************)
\* The Split rows of the expense with key id.
SplitsOf(id) == {s \in splits : s.expense_id = id}

\* The Split rows of the expenses of group g.
GroupSplits(g) == {s \in splits : \E e \in expenses : e.group_id = g /\ e.id = s.expense_id}

(***************************************************************************)
(* The balance computations on the stored ledger.                          *)
(***************************************************************************)
\* The elements of a set of numbers, smallest first: the order in which an
\* unordered query returns the rows of a table (by key).
Ascending(S) ==
    [k \in 1..Cardinality(S) |-> CHOOSE x \in S : Cardinality({y \in S : y < x}) = k - 1]

\* The user_id of the Split with key id.
SplitUser(id) == (CHOOSE s \in splits : s.id = id).user_id

\* expense.splits, read in key order, for the expenses whose keys are the
\* sequence ids: the order of the two nested for loops of _simplify_debts.
SplitIdsOf(ids) ==
    LET rows       == {s \in splits : \E k \in DOMAIN ids : ids[k] = s.expense_id}
        Place(s)   == CHOOSE k \in DOMAIN ids : ids[k] = s.expense_id
        Sooner(s, t) == \/ Place(s) < Place(t)
                        \/ Place(s) = Place(t) /\ s.id < t.id
    IN  [n \in 1..Cardinality(rows) |->
            (CHOOSE s \in rows : Cardinality({t \in rows : Sooner(t, s)}) = n - 1).id]

\* The keys of user_balances in insertion order (a dict keeps it): each
\* user at the first Split of theirs the loops meet.
BalanceKeyOrder(sids) ==
    LET firsts == {k \in DOMAIN sids :
                     \A j \in 1..(k - 1) : SplitUser(sids[j]) # SplitUser(sids[k])}
    IN  [n \in 1..Cardinality(firsts) |-> SplitUser(sids[Ascending(firsts)[n]])]

\* The expenses of group g in key order.
GroupExpenseIds(g) == Ascending({e.id : e \in {x \in expenses : x.group_id = g}})

\* user_balances of _simplify_debts / simplify_group_debts for group g:
\* the keys in insertion order and the balance of each.
GroupUserBalances(g) ==
    CHOOSE ub \in {[keys |-> keys,
                    vals |-> [k \in DOMAIN keys |-> UserBalance(GroupSplits(g), keys[k])]] :
                      keys \in {BalanceKeyOrder(sids) :
                                  sids \in {SplitIdsOf(ids) : ids \in {GroupExpenseIds(g)}}}} :
        TRUE

\* The transactions the simplifier returns on user_balances ub, payer and
\* payee as user keys.
NamedTransactions(ub) ==
    LET txns == Simplify(ub.vals)
    IN  [n \in DOMAIN txns |-> [from   |-> ub.keys[txns[n].from],
                                to     |-> ub.keys[txns[n].to],
                                amount |-> txns[n].amount]]

\* The transactions _simplify_debts / simplify_group_debts return for group g.
SimplifyGroup(g) == NamedTransactions(GroupUserBalances(g))

\* OtherSplits without the test other_split.user_id != user_id.
OtherSplitsIncludingOwn(ss, uid) == ss

\* for other_split in expense.splits: if other_split.user_id != user_id
OtherSplits(ss, uid) == {o \in ss : o.user_id # uid}

\* The pairs (split of the user, split of another participant of the same
\* expense) the two nested loops of a pairwise computation visit.
SplitPairs(mine, uid) ==
    {p \in mine \X splits : p[2] \in OtherSplits(SplitsOf(p[1].expense_id), uid)}

\* len(expense.splits) - 1, the divisor applied for a pair.
PairDivisor(p) == Cardinality(SplitsOf(p[1].expense_id)) - 1

\* The bot's user_paid: the paid amount of the first Split of the user in
\* the expense (next(...) over expense.splits).
BotUserPaid(s, uid) ==
    LET own == {o \in SplitsOf(s.expense_id) : o.user_id = uid}
    IN  (CHOOSE o \in own : \A x \in own : o.id <= x.id).paid_amount

\* The sum of net / (len(expense.splits) - 1) over a set of pairs; bot
\* tells whose user_paid is used.
RECURSIVE SumContributions(_, _, _)
SumContributions(pairs, uid, bot) ==
    IF pairs = {} THEN 0
    ELSE LET p    == CHOOSE x \in pairs : TRUE
             paid == IF bot THEN BotUserPaid(p[1], uid) ELSE p[1].paid_amount
         IN  ((paid - p[1].owed_amount) \div PairDivisor(p))
                 + SumContributions(pairs \ {p}, uid, bot)

\* The accumulated dict of a pairwise computation: other user -> amount.
Accumulated(mine, uid, bot) ==
    LET pairs == SplitPairs(mine, uid)
    IN  [v \in {p[2].user_id : p \in pairs} |->
            SumContributions({p \in pairs : p[2].user_id = v}, uid, bot)]

\* The Split rows a pairwise query returns for user_id in a group:
\* db.query(Split).join(Expense).join(Group).filter(..., Split.user_id == user_id)
SplitsOfUserIn(g, uid) == {s \in GroupSplits(g) : s.user_id = uid}

\* BillSplitBot._calculate_user_balances(db, user_id, chat_id), as called by
\* /balance with user_id = update.effective_user.id (the Telegram id): the
\* entries whose magnitude exceeds 0.01.  (Keyed by user key here, by
\* username in the program.)
BotCalculateUserBalances(telegramId, chatId) ==
    LET acc == Accumulated(SplitsOfUserIn(GroupByChatId(groups, chatId), telegramId),
                           telegramId, TRUE)
    IN  [v \in {x \in DOMAIN acc : Abs(acc[x]) > Tol} |-> acc[v]]

\* GET /users/{user_id}/balances?group_id=: every accumulated entry.
ApiGetUserBalances(userId, groupId) ==
    Accumulated(SplitsOfUserIn(groupId, userId), userId, FALSE)

\* The divisors of the pairwise divisions executed for user uid in group g.
PairwiseDivisors(g, uid) ==
    {PairDivisor(p) : p \in SplitPairs(SplitsOfUserIn(g, uid), uid)}

\* total_amount / total_expenses of group_stats and get_group_summary,
\* executed only after "if not expenses: return".
AverageDivisors(g) ==
    LET n == Cardinality({e \in expenses : e.group_id = g})
    IN  IF n = 0 THEN {} ELSE {n}

\* total_amount / num_participants of _create_expense, executed between the
\* two commits of an accepted expense message.
EqualShareDivisors ==
    IF botPc = "splits" THEN {Len(botReq.data.participants)} ELSE {}

(***************************************************************************)
(* Properties of the ledger, continued.                                    *)
(***************************************************************************)
RECURSIVE OwedSum(_)
OwedSum(ss) ==
    IF ss = {} THEN 0
    ELSE LET s == CHOOSE x \in ss : TRUE IN s.owed_amount + OwedSum(ss \ {s})

RECURSIVE BalanceSum(_, _)
BalanceSum(ss, us) ==
    IF us = {} THEN 0
    ELSE LET u == CHOOSE x \in us : TRUE
         IN  UserBalance(ss, u) + BalanceSum(ss, us \ {u})

\* The sum over all users of their net balances in group g.
GroupBalanceSum(g) == BalanceSum(GroupSplits(g), BalanceKeys(GroupSplits(g)))

\* C2 as stated (SpecBot): after any sequence of successful recordExpense
\* calls on a group, the sum over all users of their net balances in that
\* group is 0 within 0.01.
C2_ConservationAsStated ==
    \A g \in 1..Len(groups) : Abs(GroupBalanceSum(g)) <= Tol

\* C2 amended (SpecBot): after any sequence of successful recordExpense calls
\* on a group, the sum over all users of their net balances in that group is
\* 0 within 0.01 for each expense recorded in the group.
C2_Conservation ==
    \A g \in 1..Len(groups) :
        Abs(GroupBalanceSum(g)) <= Tol * Cardinality({e \in expenses : e.group_id = g})

\* C2 witness: two expenses are fully recorded in a group and the net
\* balances of the group sum to 0.02 in magnitude.
C2_Witness ==
    /\ botPc = "idle"
    /\ \E g \in 1..Len(groups) :
        /\ Cardinality({e \in expenses : e.group_id = g}) = 2
        /\ \A e \in expenses : SplitsOf(e.id) # {}
        /\ Abs(GroupBalanceSum(g)) = 2 * Tol

\* C4 (SpecRecord): whenever recordExpense succeeds, the Expense it persisted
\* has Splits whose owed amounts sum to the Expense's total amount within
\* 0.01.
C4_OwedSumsToTotal ==
    (botPc = "reply" /\ botResult.status = "ok") =>
        \E e \in expenses :
            /\ e.id = botReq.expense_id
            /\ e.amount = botReq.data.total_amount
            /\ SplitsOf(e.id) # {}
            /\ Abs(OwedSum(SplitsOf(e.id)) - e.amount) <= Tol

\* C4 witness: an unequal split with different paid amounts was recorded.
C4_Witness ==
    /\ botPc = "reply"
    /\ botResult.status = "ok"
    /\ ~botReq.data.is_equal_split
    /\ \E s, t \in SplitsOf(botReq.expense_id) : s.paid_amount # t.paid_amount

\* C5 (Spec): in every reachable ledger state, the states between the
\* separate commits of one operation included, every stored Expense has
\* Splits whose owed amounts sum to within 0.01 of the Expense's total amount.
C5_EveryExpenseOwedSum ==
    \A e \in expenses : Abs(OwedSum(SplitsOf(e.id)) - e.amount) <= Tol

\* The step that handles an expense message up to its refusal or to the
\* commit of the Expense row.
ExpenseMessageStep == botPc = "idle" /\ botPc' # "idle"

\* Every participant of the request was found to be a member of the group.
AllResolved(req) == Len(req.telegram_users) = Len(req.data.participants)

C7_NullPaidRejected ==
    (/\ botPc # "idle"
     /\ ~botReq.data.is_equal_split
     /\ \E k \in 1..Len(botReq.data.participants) :
            botReq.data.participants[k].paid = None)
        => /\ botResult.status = "error"
           /\ botReq.expense_id = 0

\* The user a participant of a request stands for: the sender for "me", else
\* the user of that username.
ParticipantUser(req, p) ==
    IF p.username = "me"
    THEN UserByTelegramId(users, TelegramId(req.sender))
    ELSE UserByUsername(users, p.username)

\* C8 (SpecRecord): on success recordExpense creates exactly one Expense and
\* exactly one Split per participant, each with owed = totalAmount /
\* participantCount; for an equal split every Split's paid equals its owed,
\* for an unequal split every Split's paid is that participant's input paid
\* amount.
C8_OneSplitPerParticipant ==
    (botPc = "reply" /\ botResult.status = "ok") =>
        LET d  == botReq.data
            n  == Len(d.participants)
            ss == SplitsOf(botReq.expense_id)
        IN  /\ Cardinality({e \in expenses : e.id = botReq.expense_id}) = 1
            /\ Cardinality(expenses) = 1
            /\ Cardinality(ss) = n
            /\ \E first \in {s.id : s \in ss} :
                 \A k \in 1..n :
                    \E s \in ss :
                       /\ s.id = first + k - 1
                       /\ s.user_id = ParticipantUser(botReq, d.participants[k])
                       /\ s.owed_amount * n = d.total_amount
                       /\ IF d.is_equal_split
                          THEN s.paid_amount = s.owed_amount
                          ELSE d.participants[k].paid = Some(s.paid_amount)

\* C9 (Spec): in every reachable state, every Split's user was a member of
\* the owning Expense's Group at the moment the Expense was created.
C9_SplitUsersWereMembers ==
    \A e \in expenses :
        \A s \in SplitsOf(e.id) : s.user_id \in membersAtCreation[e.id]

\* C10 (SpecRecord): recordExpense is rejected unless its participant list
\* contains at least 2 distinct users; no fully recorded Expense has fewer
\* than 2 Splits or two Splits for the same user.
C10_TwoDistinctParticipants ==
    /\ (botPc # "idle" /\ botResult.status # "error") =>
           Cardinality({botReq.telegram_users[k] :
                           k \in 1..Len(botReq.telegram_users)}) >= 2
    /\ \A e \in expenses :
           (botPc = "splits" /\ botReq.expense_id = e.id)
           \/ /\ Cardinality(SplitsOf(e.id)) >= 2
              /\ \A s, t \in SplitsOf(e.id) : s.user_id = t.user_id => s = t

\* C11 (SpecRecord): a recordExpense call that fails validation leaves the
\* whole stored state exactly as it was when _create_expense was entered
\* (after handle_message stored the sender): no user, group, group
\* membership, expense or split is added, removed or modified.
C11_FailedCallChangesNothing ==
    [][(ExpenseMessageStep /\ botResult'.status = "error") =>
        LET db == RegisterSender(Tables, botReq'.sender, botReq'.chat)
        IN  /\ users' = db.users
            /\ groups' = db.groups
            /\ members' = db.members
            /\ expenses' = expenses
            /\ splits' = splits
      ]_vars

\* The step handles an expense message in which the user with key u, a
\* stored member of group g, is named and Telegram reports the user as
\* left, kicked or banned.
ReportedLeft(g, u) ==
    /\ ExpenseMessageStep
    /\ g = GroupByChatId(groups', ChatId(botReq'.chat))
    /\ \E k \in 1..Len(botReq'.data.participants) :
          /\ botReq'.answers[k] = "left"
          /\ u = UserByUsername(users, botReq'.data.participants[k].username)

SharedSplits(g, u, v) ==
    {x \in SplitsOfUserIn(g, u) : \E o \in SplitsOf(x.expense_id) : o.user_id = v}

RECURSIVE SumShares(_)
SumShares(ss) ==
    IF ss = {} THEN 0
    ELSE LET x == CHOOSE y \in ss : TRUE
         IN  ((x.paid_amount - x.owed_amount)
                 \div (Cardinality(SplitsOf(x.expense_id)) - 1))
             + SumShares(ss \ {x})

\* pairwiseBalances(user, group) as specified: each other user v with a
\* shared expense maps to the sum of (paid - owed) / (participantCount - 1)
\* over the shared expenses; entries of magnitude at most 0.01 are absent.
PairwiseBalances(u, g) ==
    LET others == {x.user_id : x \in GroupSplits(g)} \ {u}
        kept   == {v \in others : /\ SharedSplits(g, u, v) # {}
                                  /\ Abs(SumShares(SharedSplits(g, u, v))) > Tol}
    IN  [v \in kept |-> SumShares(SharedSplits(g, u, v))]

\* C13 (SpecBot, Spec): for every stored user and group, the bot's balance
\* computation and the API's user-balances endpoint both return
\* pairwiseBalances(user, group): the accumulated shares, without the
\* entries of magnitude at most 0.01.
C13_PairwiseBalances ==
    \A g \in 1..Len(groups) :
        \A u \in 1..Len(users) :
            /\ ApiGetUserBalances(u, g) = PairwiseBalances(u, g)
            /\ BotCalculateUserBalances(users[u].telegram_id,
                                        groups[g].telegram_chat_id)
                   = PairwiseBalances(u, g)

\* C20 (Spec): no balance computation divides by zero in any reachable
\* ledger state, for any user and group: the pairwise divisor
\* (participantCount - 1), the equal-share divisor participantCount and the
\* average-expense divisor are positive whenever the division is executed.
C20_DivisorsPositive ==
    /\ \A g \in 1..Len(groups) :
          /\ \A u \in 1..Len(users) :
                /\ \A d \in PairwiseDivisors(g, u) : d > 0
                /\ \A d \in PairwiseDivisors(g, users[u].telegram_id) : d > 0
          /\ \A d \in AverageDivisors(g) : d > 0
    /\ \A d \in EqualShareDivisors : d > 0

\* C20 witness: a stored user has the only Split of an expense, so the
\* pairwise loops run over a single-participant expense.
C20_Witness ==
    \E e \in expenses :
        /\ Cardinality(SplitsOf(e.id)) = 1
        /\ \E x \in SplitsOf(e.id) : x.user_id \in 1..Len(users)
        /\ AverageDivisors(e.group_id) # {}

\* The groups a step records or deletes an expense in: the group of an
\* Expense row it adds or removes, and the group of the expense whose
\* Splits it commits.
StepGroups ==
    {e.group_id : e \in (expenses \ expenses') \cup (expenses' \ expenses)}
    \cup (IF botPc = "splits" /\ botPc' = "reply"
          THEN {GroupByChatId(groups, ChatId(botReq.chat))} ELSE {})
    \cup (IF apiPc = "splits" /\ apiPc' = "idle"
          THEN {e.group_id : e \in {x \in expenses : x.id = apiReq.expense_id}}
          ELSE {})

\* C12 (SpecGroups): the net balances of a group are the sums of
\* (paid - owed) over the Splits of the group's own Expenses, so recording
\* or deleting an expense in group H leaves every net balance and the
\* simplify plan of a different group G unchanged.
C12_OtherGroupsUnchanged ==
    [][\A g \in 1..Len(groups) :
          g \notin StepGroups =>
             /\ \A u \in {x.user_id : x \in splits \cup splits'} :
                   UserBalance(GroupSplits(g), u)' = UserBalance(GroupSplits(g), u)
             /\ \A after \in {GroupUserBalances(g)'} :
                   NamedTransactions(after) = SimplifyGroup(g)
      ]_vars

(***************************************************************************)
(* Writers of one group's ledger.                                          *)
(***************************************************************************)
\* The group whose ledger the bot's handler is writing between its two
\* commits, if it is.
BotWritingGroups ==
    IF botPc = "splits" THEN {GroupByChatId(groups, ChatId(botReq.chat))} ELSE {}

\* The group whose ledger POST /expenses is writing between its two commits.
ApiWritingGroups ==
    IF apiPc = "splits"
    THEN {e.group_id : e \in {x \in expenses : x.id = apiReq.expense_id}}
    ELSE {}

\* C21 (SpecGroups): mutations of one group's ledger are serialized: a bot
\* expense message and an API POST /expenses on the same group are never in
\* flight together.
C21_SingleWriter == BotWritingGroups \cap ApiWritingGroups = {}

\* A step that deletes an Expense deletes all of its Splits with it.
DeleteCascades ==
    [][\A e \in expenses \ expenses' :
          (\A x \in expenses' : x.id # e.id) =>
              \A s \in splits' : s.expense_id # e.id]_vars

\* C22 (Spec): in every reachable state every Split belongs to an existing
\* Expense.
C22_SplitsHaveExpense == \A s \in splits : \E e \in expenses : e.id = s.expense_id

\* The Expense row the bot's handler committed, while its Splits are not
\* committed yet.
BotRecording(e) ==
    /\ botPc = "splits"
    /\ e = [id         |-> botReq.expense_id,
            group_id   |-> GroupByChatId(groups, ChatId(botReq.chat)),
            amount     |-> botReq.data.total_amount,
            created_by |-> TelegramId(botReq.sender)]

\* The Expense row POST /expenses committed, while its Splits are not
\* committed yet.
ApiRecording(e) == apiPc = "splits" /\ e.id = apiReq.expense_id

\* A stored expense no operation is recording any more.
FullyRecorded(e) == e \in expenses /\ ~BotRecording(e) /\ ~ApiRecording(e)

\* What a Split says apart from its settled flag.
SplitContent(s) == [id |-> s.id, expense_id |-> s.expense_id, user_id |-> s.user_id,
                    paid_amount |-> s.paid_amount, owed_amount |-> s.owed_amount]

\* C23 (SpecGroups): once an expense is fully recorded, a step that does not
\* delete it leaves its amount, group and creator and the user, paid and
\* owed amount of each of its Splits as they are, and adds or removes no
\* Split of it.
C23_RecordedExpenseImmutable ==
    [][\A e \in expenses :
          FullyRecorded(e) /\ (\E x \in expenses' : x.id = e.id) =>
             /\ e \in expenses'
             /\ {SplitContent(s) : s \in {x \in splits' : x.expense_id = e.id}}
                  = {SplitContent(s) : s \in SplitsOf(e.id)}
      ]_vars

(***************************************************************************)
(* Users.                                                                  *)
(***************************************************************************)
\* No User row is deleted and none changes its Telegram identity; there is
\* at most one row per Telegram identity.
UsersKeepIdentity ==
    /\ Len(users') >= Len(users)
    /\ \A k \in 1..Len(users) : users'[k].telegram_id = users[k].telegram_id
    /\ \A k, l \in 1..Len(users') :
          users'[k].telegram_id = users'[l].telegram_id => k = l

C25_SenderSeesBalance ==
    \A g \in 1..Len(groups), u \in 1..Len(users) :
        \A e \in {x \in expenses : x.group_id = g} :
            \A su \in SplitsOf(e.id), sv \in SplitsOf(e.id) :
                (/\ {x \in expenses : x.group_id = g} = {e}
                 /\ FullyRecorded(e)
                 /\ SplitsOf(e.id) = {su, sv}
                 /\ su.user_id = u /\ sv.user_id # u
                 /\ Abs(su.paid_amount - su.owed_amount) > Tol)
                => sv.user_id \in DOMAIN BotCalculateUserBalances(
                                            users[u].telegram_id,
                                            groups[g].telegram_chat_id)

(***************************************************************************)
(* Readers beside a recording in progress.                                 *)
(***************************************************************************)
\* The Splits of the fully recorded expenses of group g.
RecordedSplits(g) ==
    {s \in splits : \E e \in expenses :
                        e.group_id = g /\ e.id = s.expense_id /\ FullyRecorded(e)}

\* C26 (SpecGroups): what a net-balance or simplify computation reads in any
\* state: an expense that is being recorded shows none of its Splits (they
\* are committed together), so the balances computed from the stored rows
\* are those of the fully recorded expenses.
C26_ReadersSeeRecordedLedger ==
    \A g \in 1..Len(groups) :
        /\ \A e \in {x \in expenses : x.group_id = g} :
              ~FullyRecorded(e) => SplitsOf(e.id) = {}
        /\ \A u \in BalanceKeys(GroupSplits(g)) :
              UserBalance(GroupSplits(g), u) = UserBalance(RecordedSplits(g), u)

(***************************************************************************)
(* Properties of simplify, continued (SpecSimplify).                       *)
(***************************************************************************)
\* The sum of the amounts the emitted transactions ask key k to pay.
AskedToPay(k) ==
    SumSeq([n \in DOMAIN Txns |-> IF Txns[n].from = k THEN Txns[n].amount ELSE 0])

\* The sum of the amounts the emitted transactions give to key k.
AskedToReceive(k) ==
    SumSeq([n \in DOMAIN Txns |-> IF Txns[n].to = k THEN Txns[n].amount ELSE 0])

\* C27 (SpecSimplify): for every balance map, zero-sum or not, the amounts a
\* debtor is asked to pay sum to at most the debt and the amounts a creditor
\* is to receive sum to at most the credit.
C27_NobodyOverpays ==
    spc = "done" =>
        \A k \in DOMAIN balances :
            /\ AskedToPay(k) <= AtLeastZero(-balances[k])
            /\ AskedToReceive(k) <= AtLeastZero(balances[k])

(***************************************************************************)
(* /simplify of the bot and GET /groups/{id}/simplify of the API.          *)
(***************************************************************************)
\* db.query(TelegramUser).get(user_id): whether a row is returned.
UserStored(u) == u \in 1..Len(users)

\* The positions of user_balances whose balance passes one of the tests
\* balance > 0.01 / balance < -0.01.
Unsettled(ub) == {k \in DOMAIN ub.keys : ub.vals[k] > Tol \/ ub.vals[k] < -Tol}

\* BotSimplifyDebts without the read of user.username.
BotSimplifyDebtsNoUsername(chatId) ==
    LET g == GroupByChatId(groups, chatId)
    IN  IF g = 0 THEN [status |-> "ok", transactions |-> <<>>]
        ELSE [status |-> "ok", transactions |-> NamedTransactions(GroupUserBalances(g))]

\* BillSplitBot._simplify_debts(db, chat_id): no group gives the empty list;
\* the user is fetched inside the two branches and user.username raises on
\* a user that is not stored.
BotSimplifyDebts(chatId) ==
    LET g == GroupByChatId(groups, chatId)
    IN  IF g = 0 THEN [status |-> "ok", transactions |-> <<>>]
        ELSE LET ub == GroupUserBalances(g)
             IN  IF \E k \in Unsettled(ub) : ~UserStored(ub.keys[k])
                 THEN [status |-> "error", transactions |-> <<>>]
                 ELSE [status |-> "ok", transactions |-> NamedTransactions(ub)]

\* simplify_group_debts(group_id): no group gives 404; the user is fetched
\* for every key, and user.username is read inside the two branches.
ApiSimplifyGroupDebts(groupId) ==
    IF groupId \notin 1..Len(groups) THEN [status |-> "not_found", transactions |-> <<>>]
    ELSE LET ub      == GroupUserBalances(groupId)
             fetched == [k \in DOMAIN ub.keys |-> UserStored(ub.keys[k])]
         IN  IF \E k \in Unsettled(ub) : ~fetched[k]
             THEN [status |-> "error", transactions |-> <<>>]
             ELSE [status |-> "ok", transactions |-> NamedTransactions(ub)]

C29_SettleChangesOnlyTheFlag ==
    [][\A id \in 1..MaxId(splits) :
          ApiSettleSplit(id) =>
             /\ {s \in splits' : s.id # id} = {s \in splits : s.id # id}
             /\ \A s \in splits : s.id = id =>
                   /\ [s EXCEPT !.is_settled = TRUE] \in splits'
                   /\ Cardinality(splits') = Cardinality(splits)
                   /\ s.is_settled => splits' = splits
             /\ UNCHANGED <<users, groups, members, expenses>>
             /\ \A g \in 1..Len(groups) :
                   /\ \A u \in BalanceKeys(splits) :
                         /\ UserBalance(GroupSplits(g), u)' = UserBalance(GroupSplits(g), u)
                         /\ ApiGetUserBalances(u, g)' = ApiGetUserBalances(u, g)
                   /\ \A u \in 1..Len(users) :
                         BotCalculateUserBalances(users[u].telegram_id,
                                                  groups[g].telegram_chat_id)'
                           = BotCalculateUserBalances(users[u].telegram_id,
                                                      groups[g].telegram_chat_id)
                   /\ \A after \in {GroupUserBalances(g)'} :
                         NamedTransactions(after) = SimplifyGroup(g)
      ]_vars

\* A Split of a group with a plan that is not empty has been settled.
C29_Witness ==
    \E s \in splits :
        /\ s.is_settled
        /\ \E e \in expenses : e.id = s.expense_id /\ SimplifyGroup(e.group_id) # <<>>

(***************************************************************************)
(* Recording an equal-split expense.                                       *)
(***************************************************************************)
\* A step of the recording of an equal-split expense: the commit of its
\* Expense row or the commit of its Splits.
EqualSplitStep ==
    \/ botPc = "idle" /\ botPc' = "splits" /\ botReq'.data.is_equal_split
    \/ botPc = "splits" /\ botPc' = "reply" /\ botReq.data.is_equal_split

\* The part that rests on paid = owed alone: the recording of an
\* equal-split expense changes no net balance, no answer of /balance and no
\* simplify plan.
EqualSplitKeepsNetBalances ==
    [][EqualSplitStep =>
          \A g \in 1..Len(groups) :
             /\ \A n \in {Len(users')} : \A u \in 1..n :
                   UserBalance(GroupSplits(g), u)' = UserBalance(GroupSplits(g), u)
             /\ \A tg \in TgUsers :
                   BotCalculateUserBalances(tg, groups[g].telegram_chat_id)'
                     = BotCalculateUserBalances(tg, groups[g].telegram_chat_id)
             /\ \A after \in {GroupUserBalances(g)'} :
                   NamedTransactions(after) = SimplifyGroup(g)
      ]_vars

\* C30 (SpecEqual): the steps that record an equal-split expense leave
\* every user's net balance, every pairwise balance (of GET
\* /users/{id}/balances and of /balance) and every group's simplify plan as
\* they were.  Violated: get_user_balances keeps the entries of amount 0, so
\* the participants of the new expense appear in each other's answers.
C30_EqualSplitChangesNoBalance ==
    [][EqualSplitStep =>
          \A g \in 1..Len(groups) :
             /\ \A n \in {Len(users')} : \A u \in 1..n :
                   /\ UserBalance(GroupSplits(g), u)' = UserBalance(GroupSplits(g), u)
                   /\ ApiGetUserBalances(u, g)' = ApiGetUserBalances(u, g)
             /\ \A tg \in TgUsers :
                   BotCalculateUserBalances(tg, groups[g].telegram_chat_id)'
                     = BotCalculateUserBalances(tg, groups[g].telegram_chat_id)
             /\ \A after \in {GroupUserBalances(g)'} :
                   NamedTransactions(after) = SimplifyGroup(g)
      ]_vars

====
